---- MODULE Spec2Model ----
(***************************************************************************)
(* Landing Page Builder development server (src/server.py): the threaded   *)
(* listener, the CORS middleware (end_headers, do_OPTIONS), the POST       *)
(* router and the two API proxies proxy_claude and proxy_gemini.           *)
(*                                                                         *)
(* One connection is handled by one worker (a thread of ThreadingMixIn).   *)
(* A worker accepts a request, runs the handler up to the upstream call,   *)
(* waits for urlopen, runs the rest of the handler and closes.             *)
(*                                                                         *)
(* Byte strings and texts are sequences of small integers: a byte below    *)
(* 128 is an ASCII character (49 is the digit 1, 96 the backtick), the     *)
(* byte 255 never occurs in valid UTF-8.                                   *)
(* JSON values are records [t, s, c]: t is the type, s the characters of a *)
(* string, c the shape of the "contents" member of an object.              *)
(***************************************************************************)
EXTENDS Integers, Sequences, FiniteSets, TLC

\* ------------------------------------------------------------------ bounds
NumWorkers == 2      \* connections handled at the same time
MaxKeyLen  == 16     \* longest apiKey sent by a caller
MaxBodyLen == 3      \* longest upstream payload, in bytes

\* ------------------------------------------------------- program constants
PORT          == 8000
KeyPrefixLen  == 15
GeminiTimeout == 60

Workers == 1..NumWorkers

VARIABLES
    pc,        \* pc[w]: "idle", "arrived", "accepted", "upstream", "finished"
    request,   \* request[w]: the inbound request being handled
    calls,     \* calls[w]: the outbound requests put on the wire, in order
    waiting,   \* waiting[w]: "-", "pending" (urlopen will return) or "never"
    result,    \* result[w]: what urlopen returned or raised
    wire,      \* wire[w]: what was delivered to the caller, in order
    sends,     \* sends[w]: number of socket writes attempted
    begun,     \* begun[w]: the status codes passed to send_response, in order
    branch,    \* branch[w]: the except clause that handled the request, or "-"
    escaped,   \* escaped[w]: the exception that left the handler, or "none"
    log,       \* log[w]: the diagnostic lines the handler has printed
    server,    \* the main thread: "serving", "interrupted" or "exited"
    sink,      \* stderr: the lines written to it, each with its worker
    printed    \* printed[w]: how many lines of log[w] have reached stderr

vars == <<pc, request, calls, waiting, result, wire, sends, begun, branch, escaped, log,
          server, sink, printed>>

\* ------------------------------------------------------------- JSON values
Chars(n) == [i \in 1..n |-> 64 + i]

JAbsent == [t |-> "absent", s |-> <<>>, c |-> "-"]   \* the member is not in the object
JNull   == [t |-> "null",   s |-> <<>>, c |-> "-"]   \* JSON null, Python None
JNum    == [t |-> "num",    s |-> <<>>, c |-> "-"]
JArr    == [t |-> "arr",    s |-> <<>>, c |-> "-"]
JStr(x) == [t |-> "str",    s |-> x,    c |-> "-"]
JObj(x) == [t |-> "obj",    s |-> <<>>, c |-> x]

\* The shapes of body["contents"]: absent, [], [{}], [{"parts": []}],
\* [{"parts": [{"text": "..."}]}], [{"parts": [{"text": 5}]}].
ContentsShapes == {"absent", "empty", "noparts", "emptyparts", "text", "numtext"}

KeyLens == {0, 3, KeyPrefixLen, MaxKeyLen}
ApiKeys == {JAbsent, JNull} \cup {JStr(Chars(n)) : n \in KeyLens}
Bodies  == {JAbsent, JNull, JNum, JArr, JStr(Chars(1))} \cup {JObj(x) : x \in ContentsShapes}

\* The inbound payload bytes: their syntax class and, when they are JSON
\* text, the value they denote (top: the type of the top-level value).
Payloads ==
    {[syntax |-> x, top |-> "-", apiKey |-> JAbsent, body |-> JAbsent] : x \in {"badutf8", "malformed"}}
    \cup {[syntax |-> "json", top |-> "arr", apiKey |-> JAbsent, body |-> JAbsent]}
    \cup {[syntax |-> "json", top |-> "obj", apiKey |-> k, body |-> b] : k \in ApiKeys, b \in Bodies}

NoPayload == [syntax |-> "malformed", top |-> "-", apiKey |-> JAbsent, body |-> JAbsent]

ProxyPaths  == {"/api/claude", "/api/gemini"}
StaticPaths == {"/index.html", "/missing"}
Paths       == ProxyPaths \cup StaticPaths

\* failFrom = k > 0: the caller goes away, the k-th socket write and every
\* later one raise BrokenPipeError; 0: the caller stays connected.
FailFroms == {0, 1, 2}

ProxyRequests ==
    {[method |-> "POST", path |-> p, hasLength |-> TRUE, payload |-> d, failFrom |-> f] :
        p \in ProxyPaths, d \in Payloads, f \in FailFroms}
    \cup {[method |-> "POST", path |-> p, hasLength |-> FALSE, payload |-> NoPayload, failFrom |-> 0] :
        p \in ProxyPaths}

OtherRequests ==
    {[method |-> m, path |-> p, hasLength |-> TRUE, payload |-> NoPayload, failFrom |-> 0] :
        m \in {"OPTIONS", "GET"}, p \in Paths}
    \cup {[method |-> "POST", path |-> p, hasLength |-> TRUE, payload |-> NoPayload, failFrom |-> 0] :
        p \in StaticPaths}

Requests == ProxyRequests \cup OtherRequests

NoRequest == [method |-> "-", path |-> "-", hasLength |-> FALSE, payload |-> NoPayload, failFrom |-> 0]

\* ------------------------------------------------------ upstream outcomes
RECURSIVE ByteSeqs(_)
ByteSeqs(n) ==
    IF n = 0 THEN {<<>>}
    ELSE LET shorter == ByteSeqs(n - 1)
         IN  shorter \cup {Append(b, x) : b \in {y \in shorter : Len(y) = n - 1}, x \in {49, 96, 255}}

UpstreamBytes == ByteSeqs(MaxBodyLen)
SuccessCodes  == {200, 201, 299}
ErrorCodes    == {401, 429, 500}
ContentTypes  == {"application/json", "text/plain"}

\* What urlopen can do once the request is on the wire: return a 2xx
\* response, raise HTTPError (a non-2xx response), raise URLError (no
\* connection) or raise TimeoutError (the 60 s bound expires while reading).
Outcomes ==
    {[kind |-> "ok", status |-> st, ctype |-> ct, data |-> b] :
        st \in SuccessCodes, ct \in ContentTypes, b \in UpstreamBytes}
    \cup {[kind |-> "httperror", status |-> st, ctype |-> ct, data |-> b] :
        st \in ErrorCodes, ct \in {"application/json"}, b \in UpstreamBytes}
    \cup {[kind |-> k, status |-> 0, ctype |-> "-", data |-> <<>>] : k \in {"urlerror", "timeout"}}

NoResult == [kind |-> "-", status |-> 0, ctype |-> "-", data |-> <<>>]

\* ------------------------------------------------- Python library helpers
Min(a, b) == IF a < b THEN a ELSE b

\* x[:n]
Prefix(x, n) == SubSeq(x, 1, Min(n, Len(x)))

\* bytes.decode('utf-8'): raises UnicodeDecodeError on an invalid byte,
\* otherwise the characters of the ASCII bytes.
ValidUtf8(b)  == \A i \in 1..Len(b) : b[i] < 128
DecodeUtf8(b) == [exc |-> IF ValidUtf8(b) THEN "none" ELSE "UnicodeDecodeError", text |-> b]

\* '```' in text
HasFence(x) == \E i \in 1..(Len(x) - 2) : x[i] = 96 /\ x[i + 1] = 96 /\ x[i + 2] = 96

\* json.loads(text) succeeds: over the alphabet of the model a text is JSON
\* exactly when it is a non-empty run of digits (a number).
IsJsonText(x) == Len(x) > 0 /\ \A i \in 1..Len(x) : x[i] = 49

\* dict.get(key, {}) as it would be with an empty object for a default.
GetOrEmptyObject(member) == IF member.t = "absent" THEN JObj("absent") ELSE member

\* dict.get(key): None when the member is absent.
Get(member) == IF member.t = "absent" THEN JNull ELSE member

\* Python truth value of an apiKey (None and "" are false).
Truthy(v) == v.t \notin {"null", "absent"} /\ ~(v.t = "str" /\ Len(v.s) = 0)

\* json.dumps(body).encode('utf-8'): the bytes of the JSON text of body.
JsonDumps(body) == [enc |-> "json/utf-8", value |-> body]

\* --------------------------------------------------- the handler's state
\* The part of a worker's state a handler run changes: what reached the
\* caller, the socket writes tried, the send_response calls, the stderr
\* lines, the pending exception and the except clause entered.
NewRun == [wire |-> <<>>, sends |-> 0, begun |-> <<>>, log |-> <<>>, exc |-> "none", branch |-> "-"]

RunOf(w) == [wire |-> wire[w], sends |-> sends[w], begun |-> begun[w], log |-> log[w],
             exc |-> "none", branch |-> branch[w]]

Line(k, v) == [k |-> k, v |-> v]

\* print(..., file=sys.stderr): skipped once an exception is pending.
PrintTo(st, lines) == IF st.exc # "none" THEN st ELSE [st EXCEPT !.log = @ \o lines]

Raise(st, e) == IF st.exc # "none" THEN st ELSE [st EXCEPT !.exc = e]

NoBody       == [kind |-> "none", data |-> <<>>, message |-> "-"]
Bytes(b)     == [kind |-> "bytes", data |-> b, message |-> "-"]
\* json.dumps({'error': {'message': m}}).encode('utf-8')
ErrorJson(m) == [kind |-> "errorjson", data |-> <<>>, message |-> m]
Page(name)   == [kind |-> "page", data |-> <<>>, message |-> name]

HeadItem(code, hdrs) == [kind |-> "head", status |-> code, headers |-> hdrs, body |-> NoBody]
BodyItem(b)          == [kind |-> "body", status |-> 0, headers |-> {}, body |-> b]

\* One write to the connection's socket (a flush of the buffered headers,
\* or wfile.write): it raises once the caller is gone.
SocketWrite(st, item, failFrom) ==
    IF st.exc # "none" THEN st
    ELSE IF failFrom > 0 /\ st.sends + 1 >= failFrom
         THEN [st EXCEPT !.sends = @ + 1, !.exc = "BrokenPipeError"]
         ELSE [st EXCEPT !.sends = @ + 1, !.wire = Append(@, item)]

\* ------------------------------------------------------- CORS middleware
CORSHeaders ==
    { <<"Access-Control-Allow-Origin", "*">>,
      <<"Access-Control-Allow-Methods", "GET, POST, OPTIONS">>,
      <<"Access-Control-Allow-Headers", "Content-Type, x-api-key, x-goog-api-key">>,
      <<"Cache-Control", "no-store, no-cache, must-revalidate">> }

\* end_headers as it would be with the Cache-Control header forgotten.
end_headers_NoCacheControl(hdrs) ==
    hdrs \cup {h \in CORSHeaders : h[1] # "Cache-Control"}

\* MyHTTPRequestHandler.end_headers: the four headers are added to every
\* header block, then the block is flushed.
end_headers(hdrs) == hdrs \cup CORSHeaders

\* send_response(code); send_header(...)*; end_headers(); [wfile.write(body)]
Respond(st, code, hdrs, body, failFrom) ==
    IF st.exc # "none" THEN st
    ELSE LET s1 == [st EXCEPT !.begun = Append(@, code)]
             s2 == SocketWrite(s1, HeadItem(code, end_headers(hdrs)), failFrom)
         IN  IF body.kind = "none" THEN s2 ELSE SocketWrite(s2, BodyItem(body), failFrom)

JsonType == {<<"Content-Type", "application/json">>}

\* Entering an except clause: the exception is caught.
Catch(st, clause) == [st EXCEPT !.exc = "none", !.branch = clause]

\* The exception urlopen raises for a failed call.
ExcOf(o) == IF o.kind = "urlerror" THEN "URLError" ELSE "TimeoutError"

ContentLength(b) == {<<"Content-Length", ToString(Len(b))>>}

\* ------------------------------------------------------ reading the envelope
\* ReadEnvelope as it would be if a body that does not parse were replaced by
\* an empty envelope {"apiKey": "", "body": {}} instead of raising.
ReadEnvelopeLenient(r) ==
    IF r.hasLength /\ r.payload.syntax # "json"
    THEN [exc |-> "none", api_key |-> JStr(<<>>), body |-> JObj("absent")]
    ELSE [exc |-> IF ~r.hasLength THEN "TypeError"
                  ELSE IF r.payload.top # "obj" THEN "AttributeError" ELSE "none",
          api_key |-> Get(r.payload.apiKey), body |-> Get(r.payload.body)]

\* int(self.headers['Content-Length']); rfile.read; decode; json.loads;
\* request_data.get('apiKey'); request_data.get('body').
ReadEnvelope(r) ==
    LET e == IF ~r.hasLength THEN "TypeError"
             ELSE IF r.payload.syntax = "badutf8" THEN "UnicodeDecodeError"
             ELSE IF r.payload.syntax = "malformed" THEN "JSONDecodeError"
             ELSE IF r.payload.top # "obj" THEN "AttributeError"
             ELSE "none"
    IN  [exc |-> e, api_key |-> Get(r.payload.apiKey), body |-> Get(r.payload.body)]

\* putheader as it would be if it took None for a header value.
HeaderValueOkAny(call) == TRUE

\* http.client refuses a header whose value is None (TypeError in putheader)
\* before anything is sent.
HeaderValueOk(call) == call.key.t = "str"

\* The Request of proxy_claude as it would be without the version header.
ClaudeCallNoVersion(api_key, body) ==
    [target |-> "text", url |-> "https://api.anthropic.com/v1/messages",
     auth |-> "x-api-key", key |-> api_key, version |-> "-",
     ctype |-> "application/json", data |-> JsonDumps(body), timeout |-> 0]

\* ------------------------------------------------------------ proxy_claude
ClaudeCall(api_key, body) ==
    [target |-> "text", url |-> "https://api.anthropic.com/v1/messages",
     auth |-> "x-api-key", key |-> api_key, version |-> "2023-06-01",
     ctype |-> "application/json", data |-> JsonDumps(body), timeout |-> 0]

\* "LOG REQUEST": body.get('model') needs body to be a dict.
ClaudeRequestLog(st, api_key, body) ==
    LET s1 == PrintTo(st, <<Line("[ClaudeProxy] CLAUDE API REQUEST", <<>>)>>)
        s2 == IF body.t # "obj" THEN Raise(s1, "AttributeError") ELSE s1
    IN  PrintTo(s2, << Line("Model", <<>>), Line("Max tokens", <<>>), Line("Temperature", <<>>),
                       Line("API key present", IF Truthy(api_key) THEN <<1>> ELSE <<0>>),
                       IF Truthy(api_key)
                           THEN Line("API key prefix", Prefix(api_key.s, KeyPrefixLen))
                           ELSE Line("N/A", <<>>) >>)

\* The try block up to urlopen. diag is TRUE in the program; with FALSE the
\* statements that only feed stderr are deleted.
proxy_claude_before(r, diag) ==
    LET env == ReadEnvelope(r)
        s0  == Raise(NewRun, env.exc)
        s1  == IF diag THEN ClaudeRequestLog(s0, env.api_key, env.body) ELSE s0
        c   == ClaudeCall(env.api_key, env.body)
    IN  [st |-> IF HeaderValueOk(c) THEN s1 ELSE Raise(s1, "TypeError"), call |-> c]

\* "LOG RESPONSE" and the content inspection (its own try/except).
ClaudeResponseLog(o, text) ==
    << Line("[ClaudeProxy] CLAUDE API RESPONSE", <<>>),
       Line("Status", <<o.status>>), Line("Content-Length", <<Len(o.data)>>),
       Line("Response preview", text) >>
    \o (IF HasFence(text) THEN <<Line("WARNING: Response contains markdown code blocks!", <<>>)>> ELSE <<>>)
    \o (IF IsJsonText(text) THEN <<>> ELSE <<Line("Response is not valid JSON", <<>>)>>)

\* The body of "with urlopen(req) as response".
ClaudeSuccess(st, o, failFrom, diag) ==
    LET d  == DecodeUtf8(o.data)
        s1 == IF diag THEN PrintTo(Raise(st, d.exc), ClaudeResponseLog(o, d.text)) ELSE st
    IN  Respond(s1, 200, JsonType \cup ContentLength(o.data), Bytes(o.data), failFrom)

\* except urllib.error.HTTPError as e
ClaudeExceptHTTPError(st, o, failFrom, diag) ==
    LET d  == DecodeUtf8(o.data)
        s1 == IF diag THEN PrintTo(Raise(st, d.exc), <<Line("CLAUDE API ERROR", <<o.status>>),
                                                        Line("Error body", d.text)>>)
              ELSE st
    IN  Respond(s1, o.status, JsonType \cup ContentLength(o.data), Bytes(o.data), failFrom)

\* except Exception as e
ClaudeExceptException(st, e, failFrom, diag) ==
    LET s1 == IF diag THEN PrintTo(st, <<Line("PROXY EXCEPTION", <<>>)>>) ELSE st
    IN  Respond(s1, 500, JsonType, ErrorJson(e), failFrom)

\* proxy_claude from the return of urlopen on.
proxy_claude_after(st, o, failFrom, diag) ==
    IF o.kind = "httperror"
    THEN ClaudeExceptHTTPError(Catch(st, "HTTPError"), o, failFrom, diag)
    ELSE LET t == IF o.kind = "ok" THEN ClaudeSuccess(st, o, failFrom, diag) ELSE Raise(st, ExcOf(o))
         IN  IF t.exc = "none" THEN t
             ELSE ClaudeExceptException(Catch(t, "Exception"), t.exc, failFrom, diag)

\* proxy_claude when no call is issued: the except clauses after the try.
proxy_claude_failed(st, failFrom, diag) ==
    ClaudeExceptException(Catch(st, "Exception"), st.exc, failFrom, diag)

\* The Request of proxy_gemini as it would be with urlopen(req), no timeout.
GeminiCallNoTimeout(api_key, body) ==
    [target |-> "image",
     url |-> "https://generativelanguage.googleapis.com/v1beta/models/gemini-2.5-flash-image-preview:generateContent",
     auth |-> "x-goog-api-key", key |-> api_key, version |-> "-",
     ctype |-> "application/json", data |-> JsonDumps(body), timeout |-> 0]

\* ------------------------------------------------------------ proxy_gemini
GeminiCall(api_key, body) ==
    [target |-> "image",
     url |-> "https://generativelanguage.googleapis.com/v1beta/models/gemini-2.5-flash-image-preview:generateContent",
     auth |-> "x-goog-api-key", key |-> api_key, version |-> "-",
     ctype |-> "application/json", data |-> JsonDumps(body), timeout |-> GeminiTimeout]

\* body.get('contents', [{}])[0].get('parts', [{}])[0].get('text', 'N/A')[:100]
PromptTextExc(body) ==
    IF body.t # "obj" THEN "AttributeError"
    ELSE IF body.c \in {"empty", "emptyparts"} THEN "IndexError"
    ELSE IF body.c = "numtext" THEN "TypeError"
    ELSE "none"

GeminiRequestLog(st, api_key, body) ==
    LET s1 == PrintTo(st, <<Line("[GeminiProxy] IMAGE GENERATION REQUEST", <<>>)>>)
        s2 == Raise(s1, PromptTextExc(body))
    IN  PrintTo(s2, << Line("Prompt", <<>>),
                       Line("API key present", IF Truthy(api_key) THEN <<1>> ELSE <<0>>),
                       Line("Endpoint", <<>>) >>)

proxy_gemini_before(r, diag) ==
    LET env == ReadEnvelope(r)
        s0  == Raise(NewRun, env.exc)
        s1  == IF diag THEN GeminiRequestLog(s0, env.api_key, env.body) ELSE s0
        c   == GeminiCall(env.api_key, env.body)
    IN  [st |-> IF HeaderValueOk(c) THEN s1 ELSE Raise(s1, "TypeError"), call |-> c]

GeminiSuccess(st, o, failFrom, diag) ==
    LET s1 == IF diag THEN PrintTo(st, <<Line("Response received", <<>>),
                                         Line("Response size", <<Len(o.data)>>)>>)
              ELSE st
    IN  Respond(s1, 200, JsonType, Bytes(o.data), failFrom)

\* except urllib.error.HTTPError as e
GeminiExceptHTTPError(st, o, failFrom, diag) ==
    LET d  == DecodeUtf8(o.data)
        s1 == IF diag THEN PrintTo(Raise(st, d.exc), <<Line("GEMINI API ERROR", <<o.status>>),
                                                        Line("Error", d.text)>>)
              ELSE st
    IN  Respond(s1, o.status, JsonType, Bytes(o.data), failFrom)

\* except urllib.error.URLError as e
GeminiExceptURLError(st, failFrom, diag) ==
    LET s1 == IF diag THEN PrintTo(st, <<Line("GEMINI NETWORK ERROR", <<>>)>>) ELSE st
    IN  Respond(s1, 500, JsonType, ErrorJson("Network error"), failFrom)

\* except Exception as e
GeminiExceptException(st, e, failFrom, diag) ==
    LET s1 == IF diag THEN PrintTo(st, <<Line("GEMINI PROXY ERROR", <<>>)>>) ELSE st
    IN  Respond(s1, 500, JsonType, ErrorJson(e), failFrom)

\* The except clauses of proxy_gemini, in their order.
GeminiExcept(st, failFrom, diag) ==
    IF st.exc = "none" THEN st
    ELSE IF st.exc = "URLError" THEN GeminiExceptURLError(Catch(st, "URLError"), failFrom, diag)
    ELSE GeminiExceptException(Catch(st, "Exception"), st.exc, failFrom, diag)

\* proxy_gemini with "except URLError" written above "except HTTPError":
\* HTTPError is a subclass of URLError and would be caught as a network error.
proxy_gemini_after_URLErrorFirst(st, o, failFrom, diag) ==
    IF o.kind = "httperror"
    THEN GeminiExceptURLError(Catch(st, "URLError"), failFrom, diag)
    ELSE GeminiExcept(IF o.kind = "ok" THEN GeminiSuccess(st, o, failFrom, diag) ELSE Raise(st, ExcOf(o)),
                      failFrom, diag)

\* proxy_gemini from the return of urlopen on.
proxy_gemini_after(st, o, failFrom, diag) ==
    IF o.kind = "httperror"
    THEN GeminiExceptHTTPError(Catch(st, "HTTPError"), o, failFrom, diag)
    ELSE GeminiExcept(IF o.kind = "ok" THEN GeminiSuccess(st, o, failFrom, diag) ELSE Raise(st, ExcOf(o)),
                      failFrom, diag)

proxy_gemini_failed(st, failFrom, diag) == GeminiExcept(st, failFrom, diag)

\* ----------------------------------------------------------------- actions
Init ==
    /\ pc      = [w \in Workers |-> "idle"]
    /\ request = [w \in Workers |-> NoRequest]
    /\ calls   = [w \in Workers |-> <<>>]
    /\ waiting = [w \in Workers |-> "-"]
    /\ result  = [w \in Workers |-> NoResult]
    /\ wire    = [w \in Workers |-> <<>>]
    /\ sends   = [w \in Workers |-> 0]
    /\ begun   = [w \in Workers |-> <<>>]
    /\ branch  = [w \in Workers |-> "-"]
    /\ escaped = [w \in Workers |-> "none"]
    /\ log     = [w \in Workers |-> <<>>]
    /\ server  = "serving"
    /\ sink    = <<>>
    /\ printed = [w \in Workers |-> 0]

\* The process runs: main has not returned.
Alive == server # "exited"

\* A client connects and sends its request; the connection waits in the
\* listener's queue.
Connect(w, r) ==
    /\ server # "exited"
    /\ pc[w] = "idle"
    /\ pc' = [pc EXCEPT ![w] = "arrived"]
    /\ request' = [request EXCEPT ![w] = r]
    /\ UNCHANGED <<calls, waiting, result, wire, sends, begun, branch, escaped, log>>
    /\ UNCHANGED <<server, sink, printed>>

\* A plain TCPServer: the handler runs on the thread of serve_forever.
InListenerThreadSerial(w) == TRUE

\* ThreadingMixIn.process_request starts a thread for every connection: no
\* handler runs on the thread of serve_forever.
InListenerThread(w) == FALSE

\* serve_forever takes the connection from the queue when it is not inside a
\* handler itself, and hands it to its worker.
Accept(w) ==
    /\ server = "serving"
    /\ pc[w] = "arrived"
    /\ \A v \in Workers : ~(InListenerThread(v) /\ pc[v] \in {"accepted", "upstream"})
    /\ pc' = [pc EXCEPT ![w] = "accepted"]
    /\ UNCHANGED <<request, calls, waiting, result, wire, sends, begun, branch, escaped, log>>
    /\ UNCHANGED <<server, sink, printed>>

\* Finish as it would be if the response were kept in a class attribute,
\* one for all handler instances.
FinishSharedResponse(w, st) ==
    /\ pc' = [pc EXCEPT ![w] = "finished"]
    /\ wire' = [v \in Workers |-> st.wire]
    /\ sends' = [sends EXCEPT ![w] = st.sends]
    /\ begun' = [begun EXCEPT ![w] = st.begun]
    /\ log' = [log EXCEPT ![w] = st.log]
    /\ branch' = [branch EXCEPT ![w] = st.branch]
    /\ escaped' = [escaped EXCEPT ![w] = st.exc]

\* The handler method returns (or an exception leaves it): st is its run.
Finish(w, st) ==
    /\ pc' = [pc EXCEPT ![w] = "finished"]
    /\ wire' = [wire EXCEPT ![w] = st.wire]
    /\ sends' = [sends EXCEPT ![w] = st.sends]
    /\ begun' = [begun EXCEPT ![w] = st.begun]
    /\ log' = [log EXCEPT ![w] = st.log]
    /\ branch' = [branch EXCEPT ![w] = st.branch]
    /\ escaped' = [escaped EXCEPT ![w] = st.exc]

\* Issue as it would be if api_key were kept in a class attribute, one for
\* all handler instances: the key sent is the one a concurrent request left
\* there.
IssueSharedKey(w, st, call) ==
    LET others == {v \in Workers \ {w} : calls[v] # <<>>}
        sent   == IF others = {} THEN call
                  ELSE [call EXCEPT !.key = calls[CHOOSE v \in others : TRUE][1].key]
    IN  /\ pc' = [pc EXCEPT ![w] = "upstream"]
        /\ calls' = [calls EXCEPT ![w] = Append(@, sent)]
        /\ waiting' = [waiting EXCEPT ![w] = "pending"]
        /\ log' = [log EXCEPT ![w] = st.log]
        /\ UNCHANGED <<request, result, wire, sends, begun, branch, escaped>>

\* urlopen(req) puts the request on the wire and blocks the worker.
Issue(w, st, call) ==
    /\ pc' = [pc EXCEPT ![w] = "upstream"]
    /\ calls' = [calls EXCEPT ![w] = Append(@, call)]
    /\ waiting' = [waiting EXCEPT ![w] = "pending"]
    /\ log' = [log EXCEPT ![w] = st.log]
    /\ UNCHANGED <<request, result, wire, sends, begun, branch, escaped>>

\* do_OPTIONS as it would be if it looked the path up first.
do_OPTIONS_PathChecked(w) ==
    /\ Alive
    /\ pc[w] = "accepted"
    /\ UNCHANGED <<server, sink, printed>>
    /\ request[w].method = "OPTIONS"
    /\ Finish(w, IF request[w].path = "/missing"
                 THEN Respond(NewRun, 404, {}, Page("error"), request[w].failFrom)
                 ELSE Respond(NewRun, 200, {}, NoBody, request[w].failFrom))
    /\ UNCHANGED <<request, calls, waiting, result>>

\* do_OPTIONS: send_response(200); end_headers().
do_OPTIONS(w) ==
    /\ Alive
    /\ pc[w] = "accepted"
    /\ UNCHANGED <<server, sink, printed>>
    /\ request[w].method = "OPTIONS"
    /\ Finish(w, Respond(NewRun, 200, {}, NoBody, request[w].failFrom))
    /\ UNCHANGED <<request, calls, waiting, result>>

\* SimpleHTTPRequestHandler.do_GET, inherited: the file, or the 404 page of
\* send_error; both end their headers with self.end_headers().
do_GET(w) ==
    /\ Alive
    /\ pc[w] = "accepted"
    /\ UNCHANGED <<server, sink, printed>>
    /\ request[w].method = "GET"
    /\ Finish(w, IF request[w].path = "/index.html"
                 THEN Respond(NewRun, 200, {<<"Content-Type", "text/html">>}, Page("file"),
                              request[w].failFrom)
                 ELSE Respond(NewRun, 404, {<<"Content-Type", "text/html;charset=utf-8">>},
                              Page("error"), request[w].failFrom))
    /\ UNCHANGED <<request, calls, waiting, result>>

\* do_POST with the try blocks of proxy_claude and proxy_gemini up to
\* urlopen; the base class has no do_POST for the other paths.
do_POST(w) ==
    /\ Alive
    /\ pc[w] = "accepted"
    /\ UNCHANGED <<server, sink, printed>>
    /\ request[w].method = "POST"
    /\ LET r == request[w] IN
       IF r.path = "/api/claude" THEN
           LET b == proxy_claude_before(r, TRUE) IN
           IF b.st.exc = "none"
           THEN Issue(w, b.st, b.call)
           ELSE Finish(w, proxy_claude_failed(b.st, r.failFrom, TRUE))
                /\ UNCHANGED <<request, calls, waiting, result>>
       ELSE IF r.path = "/api/gemini" THEN
           LET b == proxy_gemini_before(r, TRUE) IN
           IF b.st.exc = "none"
           THEN Issue(w, b.st, b.call)
           ELSE Finish(w, proxy_gemini_failed(b.st, r.failFrom, TRUE))
                /\ UNCHANGED <<request, calls, waiting, result>>
       ELSE Finish(w, Raise(NewRun, "AttributeError"))
            /\ UNCHANGED <<request, calls, waiting, result>>

\* The outcomes urlopen can have for a call: only the image call is bounded
\* by a timeout.
OutcomesOf(call) == {o \in Outcomes : o.kind = "timeout" => call.timeout > 0}

\* urlopen returns or raises, and the handler runs to its end.
UrlopenReturns(w, o) ==
    /\ Alive
    /\ pc[w] = "upstream"
    /\ UNCHANGED <<server, sink, printed>>
    /\ waiting[w] = "pending"
    /\ o \in OutcomesOf(calls[w][Len(calls[w])])
    /\ result' = [result EXCEPT ![w] = o]
    /\ waiting' = [waiting EXCEPT ![w] = "-"]
    /\ Finish(w, IF request[w].path = "/api/claude"
                 THEN proxy_claude_after(RunOf(w), o, request[w].failFrom, TRUE)
                 ELSE proxy_gemini_after(RunOf(w), o, request[w].failFrom, TRUE))
    /\ UNCHANGED <<request, calls>>

\* The upstream never answers a call that has no timeout: the worker stays
\* blocked in urlopen.
UpstreamSilent(w) ==
    /\ Alive
    /\ pc[w] = "upstream"
    /\ UNCHANGED <<server, sink, printed>>
    /\ waiting[w] = "pending"
    /\ calls[w][Len(calls[w])].timeout = 0
    /\ waiting' = [waiting EXCEPT ![w] = "never"]
    /\ UNCHANGED <<pc, request, calls, result, wire, sends, begun, branch, escaped, log>>

\* shutdown_request: the connection is closed and the thread ends.
Close(w) ==
    /\ Alive
    /\ pc[w] = "finished"
    /\ printed' = [printed EXCEPT ![w] = 0]
    /\ UNCHANGED <<server, sink>>
    /\ pc' = [pc EXCEPT ![w] = "idle"]
    /\ request' = [request EXCEPT ![w] = NoRequest]
    /\ calls' = [calls EXCEPT ![w] = <<>>]
    /\ waiting' = [waiting EXCEPT ![w] = "-"]
    /\ result' = [result EXCEPT ![w] = NoResult]
    /\ wire' = [wire EXCEPT ![w] = <<>>]
    /\ sends' = [sends EXCEPT ![w] = 0]
    /\ begun' = [begun EXCEPT ![w] = <<>>]
    /\ branch' = [branch EXCEPT ![w] = "-"]
    /\ escaped' = [escaped EXCEPT ![w] = "none"]
    /\ log' = [log EXCEPT ![w] = <<>>]

\* One connection at a time, over every request and every upstream outcome.
Next ==
    \/ \E r \in Requests : Connect(1, r)
    \/ Accept(1)
    \/ do_OPTIONS(1)
    \/ do_GET(1)
    \/ do_POST(1)
    \/ \E o \in Outcomes : UrlopenReturns(1, o)
    \/ UpstreamSilent(1)
    \/ Close(1)

Spec == Init /\ [][Next]_vars

\* ------------------------------------------------- concurrent connections
\* A well-formed envelope: a string key and an object body.
Envelope(n) == [syntax |-> "json", top |-> "obj", apiKey |-> JStr(Chars(n)), body |-> JObj("text")]

ConcRequests ==
    {[method |-> "POST", path |-> p, hasLength |-> TRUE, payload |-> Envelope(3), failFrom |-> 0] :
        p \in ProxyPaths}
    \cup {[method |-> "POST", path |-> "/api/claude", hasLength |-> TRUE, payload |-> NoPayload, failFrom |-> 0],
          [method |-> "OPTIONS", path |-> "/api/claude", hasLength |-> TRUE, payload |-> NoPayload, failFrom |-> 0]}

ConcOutcomes ==
    {[kind |-> "ok", status |-> 200, ctype |-> "application/json", data |-> <<49>>],
     [kind |-> "httperror", status |-> 401, ctype |-> "application/json", data |-> <<255>>],
     [kind |-> "urlerror", status |-> 0, ctype |-> "-", data |-> <<>>]}

\* Every connection of Workers at once, over a few requests and outcomes.
NextConc ==
    \E w \in Workers :
        \/ \E r \in ConcRequests : Connect(w, r)
        \/ Accept(w)
        \/ do_OPTIONS(w)
        \/ do_POST(w)
        \/ \E o \in ConcOutcomes : UrlopenReturns(w, o)
        \/ UpstreamSilent(w)
        \/ Close(w)

\* The listener and every worker thread keep running; a pending urlopen
\* returns. Clients need not connect, and an upstream may stay silent.
Fairness ==
    \A w \in Workers :
        /\ WF_vars(Accept(w))
        /\ WF_vars(do_OPTIONS(w))
        /\ WF_vars(do_POST(w))
        /\ WF_vars(\E o \in ConcOutcomes : UrlopenReturns(w, o))
        /\ WF_vars(Close(w))

ConcSpec == Init /\ [][NextConc]_vars /\ Fairness

\* ThreadedTCPServer as it would be with the default daemon_threads = False.
daemon_threads_default == FALSE

\* daemon_threads = True: worker threads are daemon threads, which
\* server_close does not join and the interpreter does not wait for.
daemon_threads == TRUE

\* Ctrl+C: KeyboardInterrupt is raised in the main thread inside
\* serve_forever and caught in main, which leaves the accept loop.
Interrupt ==
    /\ server = "serving"
    /\ server' = "interrupted"
    /\ UNCHANGED <<pc, request, calls, waiting, result, wire, sends, begun, branch, escaped, log,
                   sink, printed>>

\* The with block ends: server_close closes the listening socket and joins
\* the worker threads that are not daemon threads; main returns and the
\* process exits, which ends the daemon threads where they are.
server_close ==
    /\ server = "interrupted"
    /\ daemon_threads \/ \A w \in Workers : pc[w] \in {"idle", "arrived"}
    /\ server' = "exited"
    /\ UNCHANGED <<pc, request, calls, waiting, result, wire, sends, begun, branch, escaped, log,
                   sink, printed>>

\* The server with its interrupt: the main thread keeps running, nothing is
\* assumed of the workers.
NextShutdown ==
    \/ NextConc
    \/ Interrupt
    \/ server_close

ShutdownSpec == Init /\ [][NextShutdown]_vars /\ WF_vars(server_close)

\* Every line the handler has printed so far has reached stderr.
AllPrinted(w) == printed[w] = Len(log[w])

\* One print(..., file=sys.stderr) call of worker w writes its line: the
\* calls of a record are separate statements with no lock around them, and
\* another thread can run between any two of them.
StderrWrite(w) ==
    /\ Alive
    /\ printed[w] < Len(log[w])
    /\ sink' = Append(sink, [w |-> w, line |-> log[w][printed[w] + 1]])
    /\ printed' = [printed EXCEPT ![w] = @ + 1]
    /\ UNCHANGED <<pc, request, calls, waiting, result, wire, sends, begun, branch, escaped, log,
                   server>>

SinkRequests == {r \in ConcRequests : r.method = "POST"}

\* stderr under concurrent requests, line by line: every connection slot
\* takes one request, prints its request record, and those that reach
\* urlopen get their answer and print the response record.
NextSink ==
    \E w \in Workers :
        \/ \E r \in SinkRequests : Connect(w, r)
        \/ Accept(w)
        \/ do_POST(w)
        \/ StderrWrite(w)
        \/ AllPrinted(w) /\ UrlopenReturns(w, [kind |-> "urlerror", status |-> 0, ctype |-> "-", data |-> <<>>])

SinkSpec == Init /\ [][NextSink]_vars

\* Concurrent proxy requests that differ in key and in body, and upstream
\* answers that differ in status and in bytes.
IsoRequests ==
    {[method |-> "POST", path |-> p, hasLength |-> TRUE,
      payload |-> [syntax |-> "json", top |-> "obj", apiKey |-> JStr(Chars(n)), body |-> JObj(x)],
      failFrom |-> 0] :
        p \in ProxyPaths, n \in {3, MaxKeyLen}, x \in {"text", "absent"}}

IsoOutcomes ==
    {[kind |-> "ok", status |-> 200, ctype |-> "application/json", data |-> <<49>>],
     [kind |-> "ok", status |-> 200, ctype |-> "application/json", data |-> <<96>>],
     [kind |-> "httperror", status |-> 401, ctype |-> "application/json", data |-> <<49>>]}

NextIso ==
    \E w \in Workers :
        \/ \E r \in IsoRequests : Connect(w, r)
        \/ Accept(w)
        \/ do_POST(w)
        \/ \E o \in IsoOutcomes : UrlopenReturns(w, o)
        \/ Close(w)

IsoSpec == Init /\ [][NextIso]_vars

\* One connection, with the worker thread kept running: every request with
\* the caller connected, a few upstream outcomes, the timeout among them.
LiveRequests == {r \in Requests : r.failFrom = 0 /\ r.payload.apiKey \in {JAbsent, JStr(Chars(KeyPrefixLen))}}

LiveOutcomes == ConcOutcomes \cup {[kind |-> "timeout", status |-> 0, ctype |-> "-", data |-> <<>>]}

NextLive ==
    \/ \E r \in LiveRequests : Connect(1, r)
    \/ Accept(1)
    \/ do_OPTIONS(1)
    \/ do_GET(1)
    \/ do_POST(1)
    \/ \E o \in LiveOutcomes : UrlopenReturns(1, o)
    \/ UpstreamSilent(1)
    \/ Close(1)

\* The worker thread keeps running and a pending urlopen returns, unless the
\* upstream stays silent on a call that has no timeout.
FairnessLive ==
    /\ WF_vars(Accept(1))
    /\ WF_vars(do_OPTIONS(1))
    /\ WF_vars(do_GET(1))
    /\ WF_vars(do_POST(1))
    /\ WF_vars(\E o \in LiveOutcomes : UrlopenReturns(1, o))
    /\ WF_vars(Close(1))

LiveSpec == Init /\ [][NextLive]_vars /\ FairnessLive

\* ================================================================== claims
IsProxy(w)   == request[w].method = "POST" /\ request[w].path \in ProxyPaths
Connected(w) == request[w].failFrom = 0
Handled(w)   == pc[w] = "finished"

\* The caller received exactly one response: status code and body.
Received(w, code, body) ==
    /\ Len(wire[w]) = 2
    /\ wire[w][1].kind = "head" /\ wire[w][1].status = code
    /\ wire[w][2] = BodyItem(body)

\* The caller received a synthesized 500 with a JSON body {error: {message}}.
Received500(w) ==
    /\ Len(wire[w]) = 2
    /\ wire[w][1].kind = "head" /\ wire[w][1].status = 500
    /\ <<"Content-Type", "application/json">> \in wire[w][1].headers
    /\ wire[w][2].kind = "body" /\ wire[w][2].body.kind = "errorjson"

TargetOf(path) == IF path = "/api/claude" THEN "text" ELSE "image"
AuthOf(path)   == IF path = "/api/claude" THEN "x-api-key" ELSE "x-goog-api-key"

\* C1: a proxy POST whose body is not valid JSON (bytes that are not UTF-8,
\* or text that is not JSON) is answered with status 500 and a body
\* {error: {message}}, and no upstream call is issued for it.
C1_MalformedJsonIs500 ==
    \A w \in Workers :
        (IsProxy(w) /\ request[w].payload.syntax # "json") =>
            /\ calls[w] = <<>>
            /\ pc[w] # "upstream"
            /\ Handled(w) => /\ begun[w] = <<500>>
                             /\ branch[w] = "Exception"
                             /\ Connected(w) => Received500(w)

C1_Witness ==
    \E w \in Workers :
        /\ Handled(w) /\ IsProxy(w) /\ request[w].path = "/api/gemini"
        /\ request[w].hasLength /\ request[w].payload.syntax = "malformed"
        /\ Received500(w) /\ calls[w] = <<>>

\* The envelope {apiKey: string, body: any JSON value}.
WellFormedEnvelope(r) ==
    /\ r.hasLength
    /\ r.payload.syntax = "json" /\ r.payload.top = "obj"
    /\ r.payload.apiKey.t = "str"
    /\ r.payload.body.t \in {"obj", "arr", "str", "num", "null"}

\* C2: a proxy POST with a well-formed envelope {apiKey: string, body: any
\* JSON value} makes exactly one outbound call before it answers, to the
\* target of its path with that target's authentication header.
C2_ExactlyOneCall ==
    \A w \in Workers :
        (Handled(w) /\ IsProxy(w) /\ WellFormedEnvelope(request[w])) =>
            /\ Len(calls[w]) = 1
            /\ calls[w][1].target = TargetOf(request[w].path)
            /\ calls[w][1].auth = AuthOf(request[w].path)

\* C3: a successful upstream response (status s in 200..299, Content-Type c,
\* bytes b) reaches the caller as status s, Content-Type c and bytes b.
C3_SuccessRoundTrip ==
    \A w \in Workers :
        (Handled(w) /\ IsProxy(w) /\ Connected(w) /\ result[w].kind = "ok") =>
            /\ Received(w, result[w].status, Bytes(result[w].data))
            /\ <<"Content-Type", result[w].ctype>> \in wire[w][1].headers

\* C4: an upstream non-2xx response (status s, bytes b) reaches the caller as
\* status s and bytes b, whether or not b decodes as UTF-8.
C4_ErrorForwarded ==
    \A w \in Workers :
        (Handled(w) /\ IsProxy(w) /\ Connected(w) /\ result[w].kind = "httperror") =>
            Received(w, result[w].status, Bytes(result[w].data))

\* C5: a network failure of the upstream call gives a synthesized 500 with a
\* body {error: {message}} after a single attempt, is never forwarded as an
\* upstream status, and an upstream HTTP error is never handled as a network
\* error.
C5_NetworkErrorIs500 ==
    \A w \in Workers :
        /\ Len(calls[w]) <= 1
        /\ (Handled(w) /\ result[w].kind \in {"urlerror", "timeout"}) =>
               /\ Len(calls[w]) = 1
               /\ begun[w] = <<500>>
               /\ branch[w] \in {"URLError", "Exception"}
               /\ Connected(w) => Received500(w)
        /\ (Handled(w) /\ result[w].kind = "httperror") =>
               /\ branch[w] = "HTTPError"
               /\ \A i \in 1..Len(wire[w]) : wire[w][i].body.kind # "errorjson"

C5_Witness ==
    \E w \in Workers :
        /\ Handled(w) /\ request[w].path = "/api/gemini"
        /\ result[w].kind = "urlerror" /\ branch[w] = "URLError"
        /\ Received500(w) /\ wire[w][2].body.message = "Network error"

\* C6: every exception raised while a proxy request is handled is turned into
\* a 500 JSON response: none leaves proxy_claude or proxy_gemini, and the
\* request ends with a response. (Stated for callers that stay connected.)
C6_NoExceptionEscapes ==
    \A w \in Workers :
        (Handled(w) /\ IsProxy(w) /\ Connected(w)) =>
            /\ escaped[w] = "none"
            /\ Len(wire[w]) = 2

\* The handler with its diagnostic statements deleted.
SilentBefore(r) ==
    IF r.path = "/api/claude" THEN proxy_claude_before(r, FALSE) ELSE proxy_gemini_before(r, FALSE)

SilentFailed(r, st) ==
    IF r.path = "/api/claude" THEN proxy_claude_failed(st, r.failFrom, FALSE)
    ELSE proxy_gemini_failed(st, r.failFrom, FALSE)

SilentAfter(r, o) ==
    IF r.path = "/api/claude" THEN proxy_claude_after(NewRun, o, r.failFrom, FALSE)
    ELSE proxy_gemini_after(NewRun, o, r.failFrom, FALSE)

\* C7: the upstream call and the response of every proxy request are the ones
\* the handler without its diagnostic statements gives. (Stated for the
\* well-formed envelopes: a string apiKey and any JSON value as body.)
C7_DiagnosticsDoNotMatter ==
    \A w \in Workers :
        (Handled(w) /\ IsProxy(w) /\ WellFormedEnvelope(request[w])) =>
            LET b == SilentBefore(request[w]) IN
            IF b.st.exc # "none"
            THEN /\ calls[w] = <<>>
                 /\ wire[w] = SilentFailed(request[w], b.st).wire
            ELSE /\ calls[w] = <<b.call>>
                 /\ wire[w] = SilentAfter(request[w], result[w]).wire

\* C8: every connection that arrived is accepted, handled and closed or
\* answered, unless its own upstream call never returns: however many other
\* workers are blocked in urlopen.
C8_NoWorkerDelaysAnother ==
    \A w \in Workers :
        (pc[w] = "arrived") ~> (Handled(w) \/ waiting[w] = "never")

C8_Witness ==
    \E w, v \in Workers :
        /\ waiting[w] = "never"
        /\ Handled(v) /\ result[v].kind = "ok"
        /\ Received(v, 200, Bytes(result[v].data))

\* C9: OPTIONS on any path is answered 200 with the three CORS headers and
\* no body, without routing and without an upstream call.
C9_OptionsIsBare200 ==
    \A w \in Workers :
        request[w].method = "OPTIONS" =>
            /\ calls[w] = <<>>
            /\ pc[w] # "upstream"
            /\ Handled(w) =>
                   /\ begun[w] = <<200>>
                   /\ branch[w] = "-" /\ escaped[w] = "none" /\ log[w] = <<>>
                   /\ wire[w] = <<HeadItem(200, wire[w][1].headers)>>
                   /\ \A h \in {"Access-Control-Allow-Origin", "Access-Control-Allow-Methods",
                                "Access-Control-Allow-Headers"} :
                          \E x \in wire[w][1].headers : x[1] = h

C9_Witness ==
    \E w \in Workers :
        /\ Handled(w) /\ request[w].method = "OPTIONS" /\ request[w].path = "/missing"
        /\ Len(wire[w]) = 1 /\ wire[w][1].status = 200

\* C10: every header block the server sends carries the three CORS headers
\* and the Cache-Control header, with their values.
C10_EveryResponseHasCors ==
    \A w \in Workers :
        \A i \in 1..Len(wire[w]) :
            wire[w][i].kind = "head" =>
                /\ <<"Access-Control-Allow-Origin", "*">> \in wire[w][i].headers
                /\ <<"Access-Control-Allow-Methods", "GET, POST, OPTIONS">> \in wire[w][i].headers
                /\ <<"Access-Control-Allow-Headers", "Content-Type, x-api-key, x-goog-api-key">>
                       \in wire[w][i].headers
                /\ <<"Cache-Control", "no-store, no-cache, must-revalidate">> \in wire[w][i].headers

C10_Witness ==
    \E w \in Workers :
        /\ Handled(w) /\ IsProxy(w) /\ result[w].kind = "httperror"
        /\ Len(wire[w]) = 2 /\ wire[w][1].status = 401
        /\ CORSHeaders \subseteq wire[w][1].headers

\* The payload is a JSON object without the apiKey member or without the
\* body member.
LacksField(r) ==
    /\ r.hasLength /\ r.payload.syntax = "json" /\ r.payload.top = "obj"
    /\ (r.payload.apiKey.t = "absent" \/ r.payload.body.t = "absent")

\* C11: a proxy POST whose payload is a JSON object without apiKey or
\* without body is answered with status 500 and a body {error: {message}},
\* and no request goes to the upstream for it, on both proxy paths.
C11_MissingFieldIs500 ==
    \A w \in Workers :
        (IsProxy(w) /\ LacksField(request[w])) =>
            /\ calls[w] = <<>>
            /\ pc[w] # "upstream"
            /\ Handled(w) => /\ begun[w] = <<500>>
                             /\ branch[w] = "Exception"
                             /\ Connected(w) => Received500(w)

C11_Witness ==
    \E w \in Workers :
        /\ Handled(w) /\ request[w].path = "/api/claude" /\ LacksField(request[w])
        /\ request[w].payload.apiKey = JStr(Chars(MaxKeyLen))
        /\ request[w].payload.body.t = "absent"
        /\ Received500(w) /\ calls[w] = <<>>

\* An image envelope's body the request log can read: an object whose
\* contents[0].parts[0].text is a string.
ValidImageBody(b) == b.t = "obj" /\ b.c = "text"

ImagePost(w) ==
    /\ request[w].method = "POST" /\ request[w].path = "/api/gemini"
    /\ request[w].hasLength
    /\ request[w].payload.syntax = "json" /\ request[w].payload.top = "obj"
    /\ ValidImageBody(request[w].payload.body)

C13_OtherPostFallsThrough ==
    \A w \in Workers :
        /\ calls[w] # <<>> => IsProxy(w)
        /\ (Handled(w) /\ request[w].method = "POST" /\ request[w].path \notin ProxyPaths) =>
               /\ calls[w] = <<>>
               /\ escaped[w] = "none"
               /\ Len(wire[w]) >= 1 /\ wire[w][1].kind = "head"

\* C14: the outbound request built for an envelope has the envelope's body,
\* serialized, for its payload, Content-Type application/json, and the
\* envelope's apiKey under x-api-key with anthropic-version 2023-06-01 for
\* the text target, under x-goog-api-key with no anthropic-version for the
\* image target; there is one such request at most.
C14_OutboundRequest ==
    \A w \in Workers :
        /\ Len(calls[w]) <= 1
        /\ \A i \in 1..Len(calls[w]) :
               LET c == calls[w][i]
                   r == request[w]
               IN  /\ c.data = JsonDumps(r.payload.body)
                   /\ c.ctype = "application/json"
                   /\ c.key = r.payload.apiKey
                   /\ c.target = TargetOf(r.path)
                   /\ IF r.path = "/api/claude"
                      THEN c.auth = "x-api-key" /\ c.version = "2023-06-01"
                      ELSE c.auth = "x-goog-api-key" /\ c.version = "-"

C14_Witness ==
    \E w \in Workers :
        /\ pc[w] = "upstream" /\ request[w].path = "/api/claude"
        /\ Len(calls[w]) = 1
        /\ calls[w][1].key = JStr(Chars(MaxKeyLen))
        /\ calls[w][1].data.value = JObj("text")
        /\ calls[w][1].version = "2023-06-01"

\* C15: a POST to /api/gemini is always handled, and when the 60 s bound
\* expired on a silent upstream the caller gets a 500; only a worker of
\* /api/claude can be blocked for ever on a silent upstream, and it then
\* stays blocked; an issued call is never withdrawn: its worker leaves
\* urlopen only with what urlopen returned or raised.
C15_TimeoutAsymmetry ==
    /\ \A w \in Workers :
           (pc[w] = "arrived" /\ request[w].method = "POST" /\ request[w].path = "/api/gemini")
               ~> (/\ Handled(w)
                   /\ result[w].kind = "timeout" =>
                          /\ begun[w] = <<500>>
                          /\ Connected(w) => Received500(w))
    /\ [](\A w \in Workers : waiting[w] = "never" => request[w].path = "/api/claude")
    /\ [][\A w \in Workers :
              pc[w] = "upstream" =>
                  /\ calls'[w] = calls[w]
                  /\ pc'[w] \in {"upstream", "finished"}
                  /\ pc'[w] = "finished" => result'[w] # NoResult
                  /\ waiting[w] = "never" => (pc'[w] = "upstream" /\ waiting'[w] = "never")]_vars

C15_Witness ==
    \E w \in Workers :
        /\ Handled(w) /\ request[w].path = "/api/gemini"
        /\ Len(calls[w]) = 1 /\ calls[w][1].timeout = GeminiTimeout
        /\ result[w].kind = "timeout" /\ Received500(w)

\* C16: once the interrupt has arrived the process exits, whatever the
\* workers do, those blocked for ever in urlopen included; from the
\* interrupt on no connection is accepted and serving never resumes.
C16_InterruptExits ==
    /\ (server = "interrupted") ~> (server = "exited")
    /\ [][server # "serving" =>
              /\ server' # "serving"
              /\ \A w \in Workers : pc[w] = "arrived" => pc'[w] = "arrived"]_vars

C16_Witness ==
    /\ server = "exited"
    /\ \E w \in Workers : pc[w] = "upstream" /\ waiting[w] = "never"
    /\ \E w \in Workers : pc[w] = "arrived"

\* C17: for a request whose apiKey is a non-empty string no diagnostic line
\* carries the whole key, and the prefix line carries strictly fewer
\* characters than the key has.
C17_KeyNeverLogged ==
    \A w \in Workers :
        LET k == request[w].payload.apiKey
        IN  (IsProxy(w) /\ k.t = "str" /\ Len(k.s) > 0) =>
                \A i \in 1..Len(log[w]) :
                    /\ log[w][i].v # k.s
                    /\ log[w][i].k = "API key prefix" => Len(log[w][i].v) < Len(k.s)

\* C18: on stderr the lines of one request's diagnostic record are
\* contiguous: no line of another worker's record stands between two of
\* them.
C18_RecordsContiguous ==
    \A i, j, k \in 1..Len(sink) :
        (i < j /\ j < k /\ sink[i].w = sink[k].w) => sink[j].w = sink[i].w

\* What one connection's handler works on.
WorkerState(w) ==
    <<pc[w], request[w], calls[w], waiting[w], result[w], wire[w], sends[w], begun[w],
      branch[w], escaped[w], log[w]>>

\* The target configuration a call was made with.
ConfigOf(c) == [url |-> c.url, auth |-> c.auth, version |-> c.version, timeout |-> c.timeout]

\* C19: in every state every call to a target was made with that target's
\* one configuration (URL, authentication header name, version header,
\* timeout), and a step that changes one worker's state leaves the envelope,
\* the calls, the upstream result and the response of every other worker as
\* they were.
C19_NoSharedState ==
    /\ [](\A w \in Workers : \A i \in 1..Len(calls[w]) :
              ConfigOf(calls[w][i]) =
                  ConfigOf(IF calls[w][i].target = "text" THEN ClaudeCall(JNull, JNull)
                                                          ELSE GeminiCall(JNull, JNull)))
    /\ [][\A w, v \in Workers :
              (w # v /\ WorkerState(w)' # WorkerState(w)) => WorkerState(v)' = WorkerState(v)]_vars

C19_Witness ==
    \E w, v \in Workers :
        /\ Handled(w) /\ request[w].path = "/api/claude"
        /\ result[w].kind = "ok" /\ Received(w, 200, Bytes(result[w].data))
        /\ Handled(v) /\ request[v].path = "/api/gemini"
        /\ result[v].kind = "httperror" /\ wire[v] = <<>>

\* C20: for a proxy request the handler starts one response at most: it
\* passes one status line to the connection, also when a write fails after
\* the success status and headers went out.
C20_AtMostOneResponse ==
    \A w \in Workers :
        IsProxy(w) =>
            /\ Len(begun[w]) <= 1
            /\ Len(SelectSeq(wire[w], LAMBDA x : x.kind = "head")) <= 1

\* C21: with proxy requests handled concurrently, the key and the payload
\* of every call a worker makes are those of its own request's envelope,
\* and what its connection receives comes from its own upstream result:
\* nothing before the result is there, upstream bytes only as that result's
\* bytes, and a status other than 500 only as 200 for a success or as the
\* status of that result's error.
C21_Isolation ==
    \A w \in Workers :
        IsProxy(w) =>
            /\ \A i \in 1..Len(calls[w]) :
                   /\ calls[w][i].key = request[w].payload.apiKey
                   /\ calls[w][i].data = JsonDumps(request[w].payload.body)
            /\ \A i \in 1..Len(wire[w]) :
                   /\ (wire[w][i].kind = "body" /\ wire[w][i].body.kind = "bytes") =>
                          /\ result[w] # NoResult
                          /\ wire[w][i].body.data = result[w].data
                   /\ (wire[w][i].kind = "head" /\ wire[w][i].status # 500) =>
                          \/ result[w].kind = "ok" /\ wire[w][i].status = 200
                          \/ result[w].kind = "httperror" /\ wire[w][i].status = result[w].status

C21_Witness ==
    \E w, v \in Workers :
        /\ Handled(w) /\ Handled(v) /\ request[w].path = request[v].path
        /\ calls[w] # <<>> /\ calls[v] # <<>>
        /\ calls[w][1].key = JStr(Chars(3)) /\ calls[v][1].key = JStr(Chars(MaxKeyLen))
        /\ calls[w][1].data.value = JObj("text") /\ calls[v][1].data.value = JObj("absent")
        /\ result[w].kind = "ok" /\ Received(w, 200, Bytes(<<96>>))
        /\ result[v].kind = "httperror" /\ Received(v, 401, Bytes(<<49>>))

====
